---------------------------- MODULE Spec2Model ----------------------------
(***************************************************************************)
(* Self-healing CI/CD pipeline monitor (pipeline-monitor/app).             *)
(*                                                                         *)
(* The model covers the three processing paths of the application:         *)
(*   - the webhook path   github_webhook -> handle_pipeline_failure,       *)
(*   - the polling loop   monitor_safe.run_safe_monitor,                   *)
(*   - the polling loop   main.monitor_pipelines,                          *)
(* together with the healing engine (analyze_failure, heal and the         *)
(* strategies), the healing-success predictor, the outcome store and the   *)
(* repository files the strategies rewrite.                                *)
(*                                                                         *)
(* Probabilities are per-mille integers (0.70 is 700).  The coroutines     *)
(* run on one asyncio event loop: a task gives up control only at an       *)
(* await that suspends (aiohttp request, asyncio.sleep); `running` names   *)
(* the task that holds the loop between two such points.                   *)
(***************************************************************************)
EXTENDS Integers, Sequences, FiniteSets, TLC

(***************************************************************************)
(* Bounds of the model.                                                    *)
(***************************************************************************)
\* tracked run ids are 1..MaxRunId
MaxRunId == 2
\* runs in one poll response (the code asks per_page=5)
MaxPage == 2
\* runs observed in one behaviour when the three paths run together
MaxTogether == 2
\* webhook events recorded in one behaviour
MaxHooks == 2
\* runs a polling loop observes in one behaviour
MaxObserved == 3
\* collaborator operations of one heal call that raise for an outside reason
MaxFaults == 1
\* rules of a classifier that one log text matches
MaxHits == 2
\* direct calls of one method made one after the other in a behaviour
MaxCalls == 2
\* longest test history given to is_flaky_test
MaxHistory == 6

(***************************************************************************)
(* Program constants.                                                      *)
(***************************************************************************)
\* main.py:217 `success_probability > 0.70`, per-mille
THRESHOLD == 700
\* ml_predictor.py:93 `return 0.5  # fallback`, per-mille
FALLBACK == 500
\* monitor_safe.py:73 `if len(last_seen) > 200`
SEEN_LIMIT == 200
\* monitor_safe.py:75 `while len(last_seen) > 100`
SEEN_KEEP == 100

RunIds == 1..MaxRunId
\* a run id that is not tracked individually (any id outside RunIds)
OtherId == 0
\* a poll entry that is not a dict or carries no id
NoId == -1
NoPkg == "NoPkg"
NoProb == -1

\* the probabilities a loaded healing model is taken to return
Probs == {THRESHOLD, THRESHOLD + 1}
\* the confidences a loaded failure model is taken to return
Confs == {900}

(***************************************************************************)
(* Failure classification: HealingEngine.analyze_failure.                  *)
(* A log is described by what the regular expressions see in it: the set   *)
(* of rules (by position in the rule list) that match it, the text the     *)
(* first group of a missing-dependency rule captures, whether the matched  *)
(* build-failure text contains "cache" or "permission denied".             *)
(***************************************************************************)
patterns ==
    << "missing_dependency", "missing_dependency", "missing_dependency",
       "test_timeout", "test_failure", "build_failure",
       "npm_dependency_error", "deployment_crash", "resource_limit",
       "network_timeout" >>

\* the keys of self.strategies
StrategyKeys ==
    { "missing_dependency", "test_timeout", "flaky_test", "build_failure",
      "deployment_crash", "resource_limit", "network_timeout" }

MkLog(hits, pkg, cache, perm) ==
    [hits |-> hits, pkg |-> pkg, cache |-> cache, perm |-> perm]

\* "NO LOGS", and any text no rule matches
NoLogs == MkLog({}, NoPkg, FALSE, FALSE)

\* the log texts the collaborator is taken to return
Logs ==
    { NoLogs,
      MkLog({1, 5}, "pandas", FALSE, FALSE),
      MkLog({4}, NoPkg, FALSE, FALSE),
      MkLog({5}, NoPkg, FALSE, FALSE),
      MkLog({6}, NoPkg, TRUE, FALSE),
      MkLog({10}, NoPkg, FALSE, FALSE) }

\* the last rule that matches, were the scan not to stop at the first
LastHit(log) == CHOOSE i \in log.hits : \A j \in log.hits : i >= j

FirstHit(log) == CHOOSE i \in log.hits : \A j \in log.hits : i <= j

\* the severity were it left at its initial value
SeverityDefault(etype) == "medium"

Severity(etype) ==
    IF etype \in {"deployment_crash", "resource_limit"} THEN "critical"
    ELSE IF etype \in {"missing_dependency", "build_failure"} THEN "high"
    ELSE "medium"

(***************************************************************************)
(* ml-models/failure_patterns.py: FailurePatternAnalyzer.identify_pattern.  *)
(* Its rules are visited category by category in the order of the          *)
(* self.patterns dict, the rules of a category in list order; a log is     *)
(* again the set of rules (by position in that order) that match it.       *)
(***************************************************************************)
Repeat(x, n) == [i \in 1..n |-> x]

\* the category of each rule, in the order identify_pattern visits them
pattern_types ==
    Repeat("missing_dependency", 5) \o Repeat("test_timeout", 4)
    \o Repeat("test_failure", 4) \o Repeat("build_failure", 4)
    \o Repeat("deployment_crash", 4) \o Repeat("resource_limit", 4)
    \o Repeat("network_timeout", 4) \o Repeat("syntax_error", 4)
    \o Repeat("permission_error", 4) \o Repeat("configuration_error", 4)

healing_difficulty(ptype) ==
    IF ptype \in {"missing_dependency", "test_timeout", "resource_limit", "network_timeout"}
    THEN "easy"
    ELSE IF ptype \in {"syntax_error", "permission_error"} THEN "hard"
    ELSE "medium"

identify_pattern(log) ==
    IF log.hits = {} THEN [pattern_type |-> "unknown", difficulty |-> "hard"]
    ELSE LET ptype == pattern_types[FirstHit(log)]
         IN  [pattern_type |-> ptype, difficulty |-> healing_difficulty(ptype)]

RECURSIVE SubsetsUpTo(_, _)
SubsetsUpTo(S, n) ==
    IF n = 0 THEN {{}}
    ELSE LET P == SubsetsUpTo(S, n - 1) IN P \cup {h \cup {x} : h \in P, x \in S}

\* the log texts given to analyze_failure directly: any MaxHits of its rules
\* match; pkg is the text group 1 of the first matching missing-dependency
\* rule captures: a module name (\w+) for rules 1 and 2, the requirement as
\* pip prints it (\S+), with or without a version constraint, for rule 3
EngineLogs ==
    { MkLog(h, IF h \cap {1, 2, 3} # {} THEN "pandas" ELSE NoPkg, c, FALSE) :
        h \in SubsetsUpTo(DOMAIN patterns, MaxHits), c \in BOOLEAN }
    \cup
    { MkLog(h, "pandas>=1.0", c, FALSE) :
        h \in {g \in SubsetsUpTo(DOMAIN patterns, MaxHits) : 3 \in g /\ g \cap {1, 2} = {}},
        c \in BOOLEAN }

\* re.sub(r'[<>=!]+.*', '', package) on the package texts of the model
StripVersion(pkg) == IF pkg = "pandas>=1.0" THEN "pandas" ELSE pkg

\* FailurePatternAnalyzer.extract_package_name, on a log whose dependency
\* error is one of the three the engine's rules 1 to 3 also match
extract_package_name(log) ==
    IF log.hits \cap {1, 2, 3} = {} THEN NoPkg ELSE StripVersion(log.pkg)

\* the log texts given to identify_pattern
AnalyzerLogs ==
    { MkLog(h, NoPkg, FALSE, FALSE) : h \in SubsetsUpTo(DOMAIN pattern_types, MaxHits) }

\* the test histories given to is_flaky_test: TRUE is a pass
Histories == UNION { [1..n -> BOOLEAN] : n \in 0..MaxHistory }

\* is_flaky_test with exclusive limits
is_flaky_test_exclusive(test_history) ==
    IF Len(test_history) < 5 THEN FALSE
    ELSE LET fails == Cardinality({i \in DOMAIN test_history : ~test_history[i]})
             n     == Len(test_history)
         IN  20 * n < 100 * fails /\ 100 * fails < 80 * n

\* FailurePatternAnalyzer.is_flaky_test.  failure_rate is the quotient
\* fails / n; 0.20 <= fails / n <= 0.80 is compared after multiplying
\* through by 100 * n (the float quotient of two small integers equals the
\* literal 0.20 or 0.80 exactly when the fraction does).
is_flaky_test(test_history) ==
    IF Len(test_history) < 5 THEN FALSE
    ELSE LET fails == Cardinality({i \in DOMAIN test_history : ~test_history[i]})
             n     == Len(test_history)
         IN  20 * n <= 100 * fails /\ 100 * fails <= 80 * n

\* the probabilities given to _risk, per mille
RiskInputs == 0..1000

\* _risk with each boundary value in the lower band
_risk_exclusive(p) ==
    IF p > 800 THEN "very_high"
    ELSE IF p > 600 THEN "high"
    ELSE IF p > 400 THEN "medium"
    ELSE IF p > 200 THEN "low"
    ELSE "very_low"

\* FailurePredictor._risk
_risk(p) ==
    IF p >= 800 THEN "very_high"
    ELSE IF p >= 600 THEN "high"
    ELSE IF p >= 400 THEN "medium"
    ELSE IF p >= 200 THEN "low"
    ELSE "very_low"


(***************************************************************************)
(* Repository files on the run's branch, as the strategies read and write  *)
(* them.  requirements.txt is its list of lines; pytest.ini is described   *)
(* by its timeout setting and whether it carries --reruns; the workflow    *)
(* file by its timeout-minutes setting.  A setting is "none" (the word is  *)
(* absent), "word" (the word occurs but not in the form the substitution   *)
(* rewrites), "other" (set to some number) or the value a strategy sets.   *)
(***************************************************************************)
ReqFile(exists, lines) == [exists |-> exists, lines |-> lines]
PytestFile(exists, timeout, reruns) ==
    [exists |-> exists, timeout |-> timeout, reruns |-> reruns]
WorkflowFile(exists, tm) == [exists |-> exists, tm |-> tm]

NoFiles ==
    [ req    |-> ReqFile(FALSE, <<>>),
      pytest |-> PytestFile(FALSE, "none", FALSE),
      wf     |-> WorkflowFile(FALSE, "none") ]

SomeFiles ==
    [ req    |-> ReqFile(TRUE, <<"flask">>),
      pytest |-> PytestFile(TRUE, "other", FALSE),
      wf     |-> WorkflowFile(TRUE, "none") ]

\* the repository contents a behaviour starts from
InitFiles == {NoFiles, SomeFiles}

\* `a in b` on the package names of the model
Substr(a, b) ==
    a = b \/ <<a, b>> \in {<<"pandas", "pandas-stubs">>, <<"pandas", "pandas>=1.0">>}

\* `package in current_content`
InContent(pkg, lines) == \E i \in 1..Len(lines) : Substr(pkg, lines[i])

\* the sets of collaborator operations (by position in the strategy) that
\* raise for a reason outside the model (network, authorization)
MaxOps == 5
FaultPlans == {S \in SUBSET (1..MaxOps) : Cardinality(S) <= MaxFaults}

\* what a strategy returns, with the files it leaves, whether one of its
\* collaborator calls raised, and its own increments of PIPELINE_HEAL_ACTIONS
Res(success, changes, files, raised, incs) ==
    [ success |-> success, changes |-> changes, files |-> files,
      raised |-> raised, incs |-> incs ]

\* the strategy were its write based on a read taken before another
\* invocation wrote the file (a read of the file while still empty)
fix_missing_dependency_stale(a, files, repo, faults) ==
    LET pkg == a.missing_package
    IN  IF pkg = NoPkg \/ ~repo THEN Res(FALSE, <<>>, files, FALSE, 0)
        ELSE Res(TRUE, << <<"requirements.txt", pkg>> >>,
                 [files EXCEPT !.req = ReqFile(TRUE, <<pkg>>)], FALSE, 0)

\* the strategy without its test for a package already present
fix_missing_dependency_nocheck(a, files, repo, faults) ==
    LET pkg     == a.missing_package
        rdRaise == repo /\ (~files.req.exists \/ 1 \in faults)
        cur     == IF repo /\ ~rdRaise THEN files.req.lines ELSE <<>>
        new     == Append(cur, pkg)
        wrRaise == 2 \in faults \/ (cur = <<>> /\ files.req.exists)
    IN  IF pkg = NoPkg THEN Res(FALSE, <<>>, files, FALSE, 0)
        ELSE IF ~repo
             THEN Res(FALSE, << <<"requirements.txt", pkg, "suggested">> >>, files, FALSE, 0)
        ELSE IF wrRaise THEN Res(FALSE, <<>>, files, TRUE, 0)
        ELSE Res(TRUE, << <<"requirements.txt", pkg>> >>,
                 [files EXCEPT !.req = ReqFile(TRUE, new)], rdRaise, 0)

fix_missing_dependency(a, files, repo, faults) ==
    LET pkg     == a.missing_package
        rdRaise == repo /\ (~files.req.exists \/ 1 \in faults)
        cur     == IF repo /\ ~rdRaise THEN files.req.lines ELSE <<>>
        new     == Append(cur, pkg)
        \* update_file when there is content, else create_file, which the
        \* collaborator refuses for a path that exists
        wrRaise == 2 \in faults \/ (cur = <<>> /\ files.req.exists)
    IN  IF pkg = NoPkg THEN Res(FALSE, <<>>, files, FALSE, 0)
        ELSE IF InContent(pkg, cur) THEN Res(FALSE, <<>>, files, rdRaise, 0)
        ELSE IF ~repo
             THEN Res(FALSE, << <<"requirements.txt", pkg, "suggested">> >>, files, FALSE, 0)
        ELSE IF wrRaise THEN Res(FALSE, <<>>, files, TRUE, 0)
        ELSE Res(TRUE, << <<"requirements.txt", pkg>> >>,
                 [files EXCEPT !.req = ReqFile(TRUE, new)], rdRaise, 0)

\* re.sub(r"timeout\s*=\s*\d+", "timeout = 300", content), or the appended
\* "[pytest]\ntimeout = 300" when the word is absent
RaiseTimeout(t) == IF t = "word" THEN "word" ELSE "300"

fix_test_timeout(a, files, repo, faults) ==
    LET rdRaise == ~files.pytest.exists \/ 1 \in faults
        upRaise == 2 \in faults
        crRaise == 3 \in faults \/ files.pytest.exists
        updated == PytestFile(TRUE, RaiseTimeout(files.pytest.timeout), files.pytest.reruns)
        created == PytestFile(TRUE, "300", FALSE)
    IN  IF ~repo THEN Res(FALSE, <<>>, files, FALSE, 0)
        ELSE IF ~rdRaise /\ ~upRaise
             THEN Res(TRUE, << <<"pytest.ini", "timeout = 300">> >>,
                      [files EXCEPT !.pytest = updated], FALSE, 0)
        ELSE IF crRaise THEN Res(FALSE, <<>>, files, TRUE, 0)
        ELSE Res(TRUE, << <<"pytest.ini", "created with timeout = 300">> >>,
                 [files EXCEPT !.pytest = created], TRUE, 0)

\* add_package_to_requirements: its collaborator calls are operations k and
\* k+1 of the calling strategy; every exception is logged and swallowed
add_package_to_requirements(files, repo, faults, package, k) ==
    IF ~repo THEN [files |-> files, raised |-> FALSE]
    ELSE IF ~files.req.exists \/ k \in faults THEN [files |-> files, raised |-> TRUE]
    ELSE IF InContent(package, files.req.lines) THEN [files |-> files, raised |-> FALSE]
    ELSE IF (k + 1) \in faults THEN [files |-> files, raised |-> TRUE]
    ELSE [ files  |-> [files EXCEPT !.req = ReqFile(TRUE, Append(files.req.lines, package))],
           raised |-> FALSE ]

fix_flaky_test(a, files, repo, faults) ==
    LET ap      == add_package_to_requirements(files, repo, faults, "pytest-rerunfailures", 1)
        f1      == ap.files
        rdRaise == ~f1.pytest.exists \/ 3 \in faults
        needUp  == ~f1.pytest.reruns
        upRaise == needUp /\ 4 \in faults
        crRaise == 5 \in faults \/ f1.pytest.exists
        changes == << <<"requirements.txt", "pytest-rerunfailures">>, <<"pytest.ini", "--reruns 3">> >>
    IN  IF ~repo THEN Res(TRUE, changes, files, FALSE, 0)
        ELSE IF ~rdRaise /\ ~upRaise
             THEN Res(TRUE, changes,
                      IF needUp THEN [f1 EXCEPT !.pytest.reruns = TRUE] ELSE f1,
                      ap.raised, 0)
        ELSE IF crRaise THEN Res(FALSE, <<>>, f1, TRUE, 0)
        ELSE Res(TRUE, changes, [f1 EXCEPT !.pytest = PytestFile(TRUE, "none", TRUE)], TRUE, 0)

fix_build_failure(a, files, repo, faults) ==
    IF a.cache THEN Res(TRUE, << <<"cache", "cleared">> >>, files, FALSE, 0)
    ELSE Res(FALSE, <<>>, files, FALSE, 0)

\* hasGood: the collaborator lists a run that concluded success
rollback_deployment(a, files, repo, faults, hasGood) ==
    IF ~repo THEN Res(FALSE, <<>>, files, FALSE, 0)
    ELSE IF 1 \in faults THEN Res(FALSE, <<>>, files, TRUE, 0)
    ELSE IF ~hasGood THEN Res(FALSE, <<>>, files, FALSE, 0)
    ELSE Res(TRUE, << <<"deployment", "reverted">> >>, files, FALSE, 1)

\* re.sub(r"timeout-minutes:\s*\d+", "timeout-minutes: 60", content) when
\* the word occurs, else the content unchanged
RaiseMinutes(tm) == IF tm \in {"other", "60"} THEN "60" ELSE tm

increase_resources(a, files, repo, faults) ==
    IF ~repo THEN Res(FALSE, <<>>, files, FALSE, 0)
    ELSE IF ~files.wf.exists \/ 1 \in faults THEN Res(FALSE, <<>>, files, TRUE, 0)
    ELSE IF 2 \in faults THEN Res(FALSE, <<>>, files, TRUE, 0)
    ELSE Res(TRUE, << <<"workflow", "timeout-minutes = 60">> >>,
             [files EXCEPT !.wf = WorkflowFile(TRUE, RaiseMinutes(files.wf.tm))], FALSE, 0)

add_retry_logic(a, files, repo, faults) ==
    LET ap1 == add_package_to_requirements(files, repo, faults, "requests", 1)
        ap2 == add_package_to_requirements(ap1.files, repo, faults, "urllib3", 3)
    IN  Res(TRUE, << <<"requirements.txt", "requests">>, <<"Suggested", "retry logic">> >>,
            ap2.files, ap1.raised \/ ap2.raised, 1)

\* the registry were two of its entries exchanged
strategies_swapped(etype, a, files, repo, faults, hasGood) ==
    CASE etype = "missing_dependency" -> fix_missing_dependency(a, files, repo, faults)
      [] etype = "test_timeout"       -> fix_test_timeout(a, files, repo, faults)
      [] etype = "flaky_test"         -> fix_flaky_test(a, files, repo, faults)
      [] etype = "build_failure"      -> fix_build_failure(a, files, repo, faults)
      [] etype = "deployment_crash"   -> rollback_deployment(a, files, repo, faults, hasGood)
      [] etype = "resource_limit"     -> add_retry_logic(a, files, repo, faults)
      [] etype = "network_timeout"    -> increase_resources(a, files, repo, faults)

\* self.strategies[error_type](failure_analysis, workflow_run)
strategies(etype, a, files, repo, faults, hasGood) ==
    CASE etype = "missing_dependency" -> fix_missing_dependency(a, files, repo, faults)
      [] etype = "test_timeout"       -> fix_test_timeout(a, files, repo, faults)
      [] etype = "flaky_test"         -> fix_flaky_test(a, files, repo, faults)
      [] etype = "build_failure"      -> fix_build_failure(a, files, repo, faults)
      [] etype = "deployment_crash"   -> rollback_deployment(a, files, repo, faults, hasGood)
      [] etype = "resource_limit"     -> increase_resources(a, files, repo, faults)
      [] etype = "network_timeout"    -> add_retry_logic(a, files, repo, faults)

\* heal were it to hand a category without a table entry to a default
\* strategy
heal_fallthrough(a, files, repo, faults, hasGood) ==
    LET r == IF a.error_type \in StrategyKeys
             THEN strategies(a.error_type, a, files, repo, faults, hasGood)
             ELSE add_retry_logic(a, files, repo, faults)
    IN  [ success |-> r.success, action_type |-> a.error_type,
          changes |-> r.changes, files |-> r.files, raised |-> r.raised,
          incs |-> r.incs + 1, executed |-> TRUE,
          details |-> "strategy" ]

\* HealingEngine.heal: the outcome, and its effect on the files and on
\* PIPELINE_HEAL_ACTIONS (incs)
heal(a, files, repo, faults, hasGood) ==
    IF a.error_type \notin StrategyKeys
    THEN [ success |-> FALSE, action_type |-> "none", changes |-> <<>>,
           files |-> files, raised |-> FALSE, incs |-> 0, executed |-> FALSE,
           details |-> "No healing strategy" ]
    ELSE LET r == strategies(a.error_type, a, files, repo, faults, hasGood)
         IN  [ success |-> r.success, action_type |-> a.error_type,
               changes |-> r.changes, files |-> r.files, raised |-> r.raised,
               incs |-> r.incs + 1, executed |-> TRUE,
               details |-> "strategy" ]

\* the outcome of a pass that has not called heal
NoOutcome ==
    [ success |-> FALSE, action_type |-> "none", changes |-> <<>>,
      raised |-> FALSE, executed |-> FALSE ]

Outcome(h) ==
    [ success |-> h.success, action_type |-> h.action_type, changes |-> h.changes,
      raised |-> h.raised, executed |-> h.executed ]


(***************************************************************************)
(* The predictor: FailurePredictor.                                        *)
(***************************************************************************)
\* predict_failure gave {"error": ...} (no "confidence" key)
NoConf == -1

\* the results predict_failure can give: an error result when the models
\* are not loaded or scoring raises, else the model's confidence
predict_failure(loaded) == IF loaded THEN Confs \cup {NoConf} ELSE {NoConf}

\* float(prediction.get("confidence", 0.0))
ConfidenceOf(prediction) == IF prediction = NoConf THEN 0 ELSE prediction

\* the call raised into its caller instead of returning
Raises == -2

\* the predictor were it to fall back to 0.0 without a healing model
predict_healing_success_zero(model) == IF model THEN Probs \cup {FALLBACK} ELSE {0}

\* the predictor were scoring not inside its try block
predict_healing_success_unguarded(model) == IF model THEN Probs \cup {Raises} ELSE {FALLBACK}

\* the values predict_healing_success can return: the fallback when there
\* is no healing model or scoring raises, else the model's probability
predict_healing_success(model) == IF model THEN Probs \cup {FALLBACK} ELSE {FALLBACK}

(***************************************************************************)
(* The gates of the three call sites of heal.                              *)
(***************************************************************************)
\* the gate of handle_pipeline_failure were the comparison not strict
HookGateInclusive(p) == p >= THRESHOLD
\* main.py handle_pipeline_failure: `if success_probability > 0.70`
HookGate(p) == p > THRESHOLD
\* main.py monitor_pipelines: `if healing_prob and float(healing_prob) > 0.7`
PipelinesGate(p) == p # 0 /\ p > THRESHOLD
\* the gate of run_safe_monitor were the comparison not strict
SafeGateInclusive(p) == p # 0 /\ p >= THRESHOLD
\* monitor_safe.py: `if prob and float(prob) > 0.7`
SafeGate(p) == p # 0 /\ p > THRESHOLD

(***************************************************************************)
(* State.                                                                  *)
(***************************************************************************)
VARIABLES
    is_model_loaded,   \* FailurePredictor.is_model_loaded
    healing_model,     \* FailurePredictor.healing_model is not None
    repo,              \* HealingEngine.repo is not None
    files,             \* the repository files on the run's branch
    metrics,           \* PIPELINE_RUNS, PIPELINE_SUCCESS, PIPELINE_HEAL_ACTIONS, and the value
                       \* last given to PIPELINE_PRED_CONF.set (NoConf before the first set)
    last_seen,         \* monitor_safe.last_seen
    sm_pc, sm_runs,            \* run_safe_monitor: position, runs of the response still to visit
    sm_done, sm_prev,          \* runs it observed in this cycle, and in the cycle before
    last_seen_run,     \* main.last_seen_run
    mp_pc, mp_runs,            \* monitor_pipelines: position, runs of the response still to visit
    mp_done, mp_prev,          \* runs it observed in this cycle, and in the cycle before
    bg_tasks,          \* handle_pipeline_failure calls queued as background tasks
    pipeline_runs,     \* table pipeline_runs, rows in insertion order
    failure_logs,      \* table failure_logs, rows in insertion order
    healing_actions,   \* table healing_actions, rows in insertion order
    reruns,            \* rerun_workflow calls per run id
    notifications,     \* send_notification calls per run id
    pass,              \* the processing pass under way or last finished
    running,           \* the task holding the event loop
    call               \* the last direct call of a classifier: its log and its result

\* the engine were it to keep what it learned: once a heal has run, it
\* reports no further failure as fixable
analyze_failure_stateful(log) ==
    LET etype == IF log.hits = {} THEN "unknown" ELSE patterns[FirstHit(log)]
    IN  [ error_type      |-> etype,
          fixable         |-> (log.hits # {}) /\ (etype \in StrategyKeys) /\ metrics.heal = 0,
          missing_package |-> IF etype = "missing_dependency" THEN log.pkg ELSE NoPkg,
          severity        |-> Severity(etype),
          cache           |-> (etype = "build_failure") /\ log.cache,
          perm            |-> (etype = "build_failure") /\ log.perm ]

analyze_failure(log) ==
    LET etype == IF log.hits = {} THEN "unknown" ELSE patterns[FirstHit(log)]
    IN  [ error_type      |-> etype,
          fixable         |-> (log.hits # {}) /\ (etype \in StrategyKeys),
          missing_package |-> IF etype = "missing_dependency" THEN log.pkg ELSE NoPkg,
          severity        |-> Severity(etype),
          cache           |-> (etype = "build_failure") /\ log.cache,
          perm            |-> (etype = "build_failure") /\ log.perm ]

\* the analysis the polling loops fall back to when analyze_failure raises
NoAnalysis == analyze_failure(NoLogs)

(***************************************************************************)
(* Groups of variables, and the state at startup.                          *)
(***************************************************************************)
vars ==
    << is_model_loaded, healing_model, repo, files, metrics, last_seen,
       sm_pc, sm_runs, sm_done, sm_prev,
       last_seen_run, mp_pc, mp_runs, mp_done, mp_prev,
       bg_tasks, pipeline_runs, failure_logs, healing_actions,
       reruns, notifications, pass, running, call >>

engineVars == << is_model_loaded, healing_model, repo >>
safeVars   == << last_seen, sm_pc, sm_runs, sm_done, sm_prev >>
pipeVars   == << last_seen_run, mp_pc, mp_runs, mp_done, mp_prev >>
hookVars   == << bg_tasks, pipeline_runs >>
storeVars  == << failure_logs, healing_actions, reruns, notifications >>

NoPass ==
    [ path |-> "none", run |-> OtherId, stage |-> "none", analysis |-> NoAnalysis,
      prob |-> NoProb, healed |-> FALSE, outcome |-> NoOutcome,
      rerun |-> FALSE, notified |-> FALSE ]

\* no classifier has been called directly
NoCall == [fn |-> "none", log |-> NoLogs, out |-> NoAnalysis]

\* the states load_model can leave: nothing loaded, the failure model and
\* the scaler without a healing model, or all three
LoadedModels == { <<FALSE, FALSE>>, <<TRUE, FALSE>>, <<TRUE, TRUE>> }

Init ==
    /\ \E m \in LoadedModels : is_model_loaded = m[1] /\ healing_model = m[2]
    /\ repo \in BOOLEAN
    /\ files \in InitFiles
    /\ metrics = [runs |-> 0, success |-> 0, conf |-> NoConf, heal |-> 0]
    /\ last_seen = [ids |-> {}, others |-> 0]
    /\ sm_pc = "fetch" /\ sm_runs = <<>>
    /\ sm_done = {} /\ sm_prev = {}
    /\ last_seen_run = NoId
    /\ mp_pc = "fetch" /\ mp_runs = <<>>
    /\ mp_done = {} /\ mp_prev = {}
    /\ bg_tasks = <<>>
    /\ pipeline_runs = <<>>
    /\ failure_logs = <<>>
    /\ healing_actions = <<>>
    /\ reruns = [r \in RunIds |-> 0]
    /\ notifications = [r \in RunIds |-> 0]
    /\ pass = NoPass
    /\ running = "none"
    /\ call = NoCall

(***************************************************************************)
(* The webhook path: github_webhook and handle_pipeline_failure.           *)
(***************************************************************************)
\* db.create_pipeline_run were it to insert without looking for the run
create_pipeline_run_insert(table, run_id, repo_name, status, conclusion, started_at, completed_at) ==
    Append(table, [ run_id |-> run_id, repo |-> repo_name, status |-> status,
                    conclusion |-> conclusion, started_at |-> started_at,
                    completed_at |-> completed_at ])

\* db.create_pipeline_run: the table it leaves.  `.first()` is the row of
\* lowest primary key.
create_pipeline_run(table, run_id, repo_name, status, conclusion, started_at, completed_at) ==
    LET found == {i \in DOMAIN table : table[i].run_id = run_id}
    IN  IF found # {}
        THEN LET existing == CHOOSE i \in found : \A j \in found : i <= j
             IN  [table EXCEPT ![existing].status = status,
                               ![existing].conclusion = conclusion,
                               ![existing].completed_at = completed_at]
        ELSE Append(table, [ run_id |-> run_id, repo |-> repo_name, status |-> status,
                             conclusion |-> conclusion, started_at |-> started_at,
                             completed_at |-> completed_at ])

\* the fields of a delivery other than the run's id and conclusion: one
\* repository, status completed, and the run's two timestamps
HookRepo == "owner/repo"
HookCreatedAt == 1
HookUpdatedAt == 2

\* POST /webhook/github.  A failed store call answers 500 and does nothing
\* else; an action other than completed/failed is ignored.
github_webhook(r, action, conclusion, dbOk) ==
    /\ running = "none"
    /\ metrics.runs < MaxHooks
    /\ IF action \in {"completed", "failed"} /\ dbOk
       THEN /\ pipeline_runs' = create_pipeline_run(pipeline_runs, r, HookRepo, "completed",
                                                    conclusion, HookCreatedAt, HookUpdatedAt)
            /\ metrics' = [metrics EXCEPT
                             !.runs = @ + 1,
                             !.success = IF conclusion = "success" THEN @ + 1 ELSE @]
            /\ bg_tasks' = IF conclusion = "failure" THEN Append(bg_tasks, r) ELSE bg_tasks
       ELSE UNCHANGED << pipeline_runs, metrics, bg_tasks >>
    /\ UNCHANGED << engineVars, call, files, safeVars, pipeVars, storeVars, pass, running >>

\* a failure log written without the run it belongs to
FailureLogRowDetached(run, a) ==
    [run |-> OtherId, error_type |-> a.error_type, severity |-> "medium"]
\* db.create_failure_log: severity is not passed and takes its default
FailureLogRow(run, a) ==
    [run |-> run, error_type |-> a.error_type, severity |-> "medium"]

\* db.create_healing_action: changes_made is not passed and defaults to []
HealingActionRow(run, o) ==
    [run |-> run, action_type |-> o.action_type, success |-> o.success, changes_made |-> <<>>]

\* handle_pipeline_failure, a background task; none of its awaits suspends.
\* fetch_workflow_logs returns a text (an error text when the collaborator
\* fails); an exception of create_failure_log or create_healing_action
\* (dbOk false) ends the pass in the handler's `except Exception`.
handle_pipeline_failure(log) ==
    /\ running = "none"
    /\ bg_tasks # <<>>
    /\ bg_tasks' = Tail(bg_tasks)
    /\ LET run  == Head(bg_tasks)
           a    == analyze_failure(log)
           base == [NoPass EXCEPT !.path = "hook", !.run = run, !.analysis = a]
       IN  \/ /\ pass' = [base EXCEPT !.stage = "error"]
              /\ UNCHANGED << files, metrics, storeVars >>
           \/ /\ failure_logs' = Append(failure_logs, FailureLogRow(run, a))
              /\ \E p \in predict_healing_success(healing_model) :
                   IF p = Raises
                   THEN /\ pass' = [base EXCEPT !.prob = Raises, !.stage = "error"]
                        /\ UNCHANGED << files, metrics, healing_actions, reruns,
                                        notifications >>
                   ELSE IF HookGate(p)
                   THEN \E faults \in FaultPlans, hasGood \in BOOLEAN, dbOk \in BOOLEAN :
                          LET h    == heal(a, files, repo, faults, hasGood)
                              done == [base EXCEPT !.prob = p, !.healed = TRUE,
                                                   !.outcome = Outcome(h)]
                          IN  /\ files' = h.files
                              /\ metrics' = [metrics EXCEPT !.heal = @ + h.incs]
                              /\ IF ~dbOk
                                 THEN /\ pass' = [done EXCEPT !.stage = "error"]
                                      /\ UNCHANGED << healing_actions, reruns, notifications >>
                                 ELSE /\ healing_actions' =
                                           Append(healing_actions, HealingActionRow(run, Outcome(h)))
                                      /\ IF h.success
                                         THEN /\ reruns' = [reruns EXCEPT ![run] = @ + 1]
                                              /\ pass' = [done EXCEPT !.stage = "succeeded",
                                                                      !.rerun = TRUE]
                                              /\ UNCHANGED notifications
                                         ELSE /\ notifications' =
                                                   [notifications EXCEPT ![run] = @ + 1]
                                              /\ pass' = [done EXCEPT !.stage = "failed",
                                                                      !.notified = TRUE]
                                              /\ UNCHANGED reruns
                   ELSE /\ notifications' = [notifications EXCEPT ![run] = @ + 1]
                        /\ pass' = [base EXCEPT !.prob = p, !.stage = "skipped",
                                                !.notified = TRUE]
                        /\ UNCHANGED << files, metrics, healing_actions, reruns >>
    /\ UNCHANGED << engineVars, call, safeVars, pipeVars, pipeline_runs, running >>

HookNext ==
    \/ \E r \in RunIds, action \in {"completed", "requested"},
          conclusion \in {"success", "failure"}, dbOk \in BOOLEAN :
            github_webhook(r, action, conclusion, dbOk)
    \/ \E log \in Logs : handle_pipeline_failure(log)

SpecHook == Init /\ [][HookNext]_vars


(***************************************************************************)
(* Poll responses.  A run of a response is described by its id (a tracked  *)
(* id, OtherId for any other id, NoId for an entry that is no dict or has  *)
(* no id), its conclusion ("null" while it has none) and whether it        *)
(* carries a logs_url.                                                     *)
(***************************************************************************)
Run(id, conclusion, logs_url) ==
    [id |-> id, conclusion |-> conclusion, logs_url |-> logs_url]

\* the entries GET /actions/runs can return
ListedRuns ==
    { Run(id, c, TRUE) : id \in RunIds, c \in {"null", "success", "failure"} }
    \cup { Run(OtherId, "null", TRUE), Run(NoId, "null", FALSE) }

SeqsUpTo(S, n) == UNION { [1..k -> S] : k \in 1..n }

\* len(last_seen)
SeenSize(seen) == Cardinality(seen.ids) + seen.others

\* `last_seen.add(run_id)`: an id outside RunIds is new each time
SeenAdd(seen, id) ==
    IF id \in RunIds THEN [seen EXCEPT !.ids = @ \cup {id}]
    ELSE [seen EXCEPT !.others = @ + 1]

\* the recency set were the eviction of lines 72-76 absent
SeenAfterEviction_absent(seen) == {seen}

\* the sets `while len(last_seen) > 100: last_seen.pop()` can leave:
\* set.pop() removes an arbitrary element
SeenAfterEviction(seen) ==
    IF SeenSize(seen) > SEEN_LIMIT
    THEN { [ids |-> kept, others |-> SEEN_KEEP - Cardinality(kept)] :
             kept \in { k \in SUBSET seen.ids :
                          /\ Cardinality(k) <= SEEN_KEEP
                          /\ SEEN_KEEP - Cardinality(k) <= seen.others } }
    ELSE {seen}

(***************************************************************************)
(* The polling loop monitor_safe.run_safe_monitor.                         *)
(***************************************************************************)
\* `raw = await github_get(url)` returns a dict with a non-empty list
SafeFetch(runs) ==
    /\ running = "none" /\ sm_pc = "fetch"
    /\ metrics.runs + Len(runs) <= MaxObserved
    /\ sm_runs' = runs /\ sm_pc' = "iter"
    /\ sm_prev' = sm_done /\ sm_done' = {}
    /\ running' = "safe"
    /\ UNCHANGED << engineVars, call, files, metrics, last_seen, pipeVars, hookVars,
                    storeVars, pass >>

\* github_get returns None, a non-dict, a response without runs or an
\* empty list: log and sleep
SafeFetchNothing ==
    /\ running = "none" /\ sm_pc = "fetch"
    /\ sm_pc' = "sleep"
    /\ sm_prev' = {} /\ sm_done' = {}
    /\ UNCHANGED << engineVars, call, files, metrics, last_seen, sm_runs, pipeVars,
                    hookVars, storeVars, pass, running >>

\* github_get raises: the top-level guard logs and sleeps
SafeFetchRaise ==
    /\ running = "none" /\ sm_pc = "fetch"
    /\ sm_pc' = "guard"
    /\ sm_prev' = {} /\ sm_done' = {}
    /\ UNCHANGED << engineVars, call, files, metrics, last_seen, sm_runs, pipeVars,
                    hookVars, storeVars, pass, running >>

\* one turn of `for run in runs`, up to the fetch of the logs
SafeIter ==
    /\ running = "safe" /\ sm_pc = "iter" /\ sm_runs # <<>>
    /\ LET run == Head(sm_runs)
       IN  IF run.id = NoId \/ (run.id \in last_seen.ids)
           THEN /\ sm_runs' = Tail(sm_runs)
                /\ UNCHANGED << last_seen, metrics, sm_pc, sm_done, running >>
           ELSE /\ \E seen \in SeenAfterEviction(SeenAdd(last_seen, run.id)) :
                     last_seen' = seen
                /\ \E prediction \in predict_failure(is_model_loaded) :
                     metrics' = [metrics EXCEPT
                                   !.runs = @ + 1,
                                   !.conf = ConfidenceOf(prediction),
                                   !.success = IF run.conclusion = "success" THEN @ + 1 ELSE @]
                /\ sm_done' = IF run.id \in RunIds
                              THEN sm_done \cup {<<run.id, run.conclusion>>}
                              ELSE sm_done
                /\ IF run.conclusion = "failure"
                   THEN /\ sm_pc' = "logs"
                        /\ running' = IF run.logs_url THEN "none" ELSE "safe"
                        /\ UNCHANGED sm_runs
                   ELSE /\ sm_runs' = Tail(sm_runs)
                        /\ UNCHANGED << sm_pc, running >>
    /\ UNCHANGED << engineVars, call, files, sm_prev, pipeVars, hookVars, storeVars, pass >>

\* the loop were a strategy's failure to reach the top-level guard, which
\* abandons the rest of the response
SafeHealAborting(log, p, faults, hasGood) ==
    /\ sm_pc = "logs"
    /\ \/ running = "none" /\ Head(sm_runs).logs_url
       \/ running = "safe" /\ ~Head(sm_runs).logs_url /\ log = NoLogs
    /\ p \in predict_healing_success(healing_model)
    /\ LET a == analyze_failure(log)
           h == heal(a, files, repo, faults, hasGood)
           \* `except Exception: prob = 0.0`
           prob == IF p = Raises THEN 0 ELSE p
           base == [NoPass EXCEPT !.path = "safe", !.run = Head(sm_runs).id,
                                  !.analysis = a, !.prob = prob]
       IN  IF SafeGate(prob)
           THEN /\ files' = h.files
                /\ metrics' = [metrics EXCEPT !.heal = @ + h.incs]
                /\ pass' = [base EXCEPT !.healed = TRUE, !.outcome = Outcome(h),
                                        !.stage = IF h.success THEN "succeeded" ELSE "failed"]
           ELSE /\ faults = {} /\ hasGood = FALSE
                /\ pass' = [base EXCEPT !.stage = "skipped"]
                /\ UNCHANGED << files, metrics >>
    /\ LET h == heal(analyze_failure(log), files, repo, faults, hasGood)
           aborted == SafeGate(IF p = Raises THEN 0 ELSE p) /\ h.raised
       IN  /\ sm_runs' = IF aborted THEN <<>> ELSE Tail(sm_runs)
           /\ sm_pc' = IF aborted THEN "guard" ELSE "iter"
    /\ running' = "safe"
    /\ UNCHANGED << engineVars, call, last_seen, sm_done, sm_prev, pipeVars, hookVars,
                    storeVars >>

\* the failure handling of one run: the logs (github_get(logs_url), "NO
\* LOGS" without a url or when the fetch fails), analyze_failure,
\* predict_healing_success, and heal behind the gate
SafeHeal(log, p, faults, hasGood) ==
    /\ sm_pc = "logs"
    /\ \/ running = "none" /\ Head(sm_runs).logs_url
       \/ running = "safe" /\ ~Head(sm_runs).logs_url /\ log = NoLogs
    /\ p \in predict_healing_success(healing_model)
    /\ LET a == analyze_failure(log)
           h == heal(a, files, repo, faults, hasGood)
           \* `except Exception: prob = 0.0`
           prob == IF p = Raises THEN 0 ELSE p
           base == [NoPass EXCEPT !.path = "safe", !.run = Head(sm_runs).id,
                                  !.analysis = a, !.prob = prob]
       IN  IF SafeGate(prob)
           THEN /\ files' = h.files
                /\ metrics' = [metrics EXCEPT !.heal = @ + h.incs]
                /\ pass' = [base EXCEPT !.healed = TRUE, !.outcome = Outcome(h),
                                        !.stage = IF h.success THEN "succeeded" ELSE "failed"]
           ELSE /\ faults = {} /\ hasGood = FALSE
                /\ pass' = [base EXCEPT !.stage = "skipped"]
                /\ UNCHANGED << files, metrics >>
    /\ sm_runs' = Tail(sm_runs) /\ sm_pc' = "iter" /\ running' = "safe"
    /\ UNCHANGED << engineVars, call, last_seen, sm_done, sm_prev, pipeVars, hookVars,
                    storeVars >>

\* the list is exhausted: `await asyncio.sleep(POLL_INTERVAL)`
SafeEnd ==
    /\ running = "safe" /\ sm_pc = "iter" /\ sm_runs = <<>>
    /\ sm_pc' = "sleep" /\ running' = "none"
    /\ UNCHANGED << engineVars, call, files, metrics, last_seen, sm_runs, sm_done,
                    sm_prev, pipeVars, hookVars, storeVars, pass >>

\* the loop were its guard outside the `while True`: only the sleep of the
\* loop body leads to a next turn
SafeWakeBodyOnly ==
    /\ running = "none" /\ sm_pc = "sleep"
    /\ sm_pc' = "fetch"
    /\ UNCHANGED << engineVars, call, files, metrics, last_seen, sm_runs, sm_done,
                    sm_prev, pipeVars, hookVars, storeVars, pass, running >>

\* the sleep ends (in the loop body or in the guard): next `while True` turn
SafeWake ==
    /\ running = "none" /\ sm_pc \in {"sleep", "guard"}
    /\ sm_pc' = "fetch"
    /\ UNCHANGED << engineVars, call, files, metrics, last_seen, sm_runs, sm_done,
                    sm_prev, pipeVars, hookVars, storeVars, pass, running >>

SafeNext ==
    \/ \E runs \in SeqsUpTo(ListedRuns, MaxPage) : SafeFetch(runs)
    \/ SafeFetchNothing
    \/ SafeFetchRaise
    \/ SafeIter
    \/ \E log \in Logs, p \in predict_healing_success(healing_model),
          faults \in FaultPlans, hasGood \in BOOLEAN : SafeHeal(log, p, faults, hasGood)
    \/ SafeEnd
    \/ SafeWake

SpecSafe == Init /\ [][SafeNext]_vars

\* asyncio.sleep returns once its delay has passed, and the event loop then
\* resumes the coroutine
FairSpecSafe == SpecSafe /\ WF_vars(SafeWake)

\* the task is scheduled again whenever it can take a step: the event loop
\* resumes it after each await, and github_get and asyncio.sleep return
FairSpecSafeLoop == SpecSafe /\ WF_vars(SafeNext)

\* the loop once it has observed SEEN_LIMIT runs whose ids are not tracked
\* here: last_seen is full, the next new id exceeds the limit.  The
\* counters count from this point on.
InitFull ==
    /\ \E m \in LoadedModels : is_model_loaded = m[1] /\ healing_model = m[2]
    /\ repo \in BOOLEAN
    /\ files \in InitFiles
    /\ metrics = [runs |-> 0, success |-> 0, conf |-> NoConf, heal |-> 0]
    /\ last_seen = [ids |-> {}, others |-> SEEN_LIMIT]
    /\ sm_pc = "fetch" /\ sm_runs = <<>>
    /\ sm_done = {} /\ sm_prev = {}
    /\ last_seen_run = NoId
    /\ mp_pc = "fetch" /\ mp_runs = <<>>
    /\ mp_done = {} /\ mp_prev = {}
    /\ bg_tasks = <<>>
    /\ pipeline_runs = <<>>
    /\ failure_logs = <<>>
    /\ healing_actions = <<>>
    /\ reruns = [r \in RunIds |-> 0]
    /\ notifications = [r \in RunIds |-> 0]
    /\ pass = NoPass
    /\ running = "none"
    /\ call = NoCall

SpecSafeFull == InitFull /\ [][SafeNext]_vars


(***************************************************************************)
(* The polling loop main.monitor_pipelines.  github_monitor always has     *)
(* get_active_workflows, so the loop never takes the direct API call; the  *)
(* entries that method builds are dicts with an id and no "conclusion"     *)
(* key.  No await of a cycle suspends before the sleep.                    *)
(***************************************************************************)
\* the entries GitHubMonitor.get_active_workflows returns
ActiveRuns == { Run(id, "null", FALSE) : id \in RunIds \cup {OtherId} }

\* the loop is at the top of `while True`: woken from its sleep, or coming
\* straight from the top-level guard
PipelinesAtTop ==
    \/ running = "none" /\ mp_pc = "fetch"
    \/ running = "pipelines" /\ mp_pc = "guard"

\* `runs_data = await github_monitor.get_active_workflows() or []`, not empty
PipelinesFetch(runs) ==
    /\ PipelinesAtTop
    /\ metrics.runs + Len(runs) <= MaxObserved
    /\ mp_runs' = runs /\ mp_pc' = "iter"
    /\ mp_prev' = mp_done /\ mp_done' = {}
    /\ running' = "pipelines"
    /\ UNCHANGED << engineVars, call, files, metrics, safeVars, last_seen_run, hookVars,
                    storeVars, pass >>

\* no active runs (or get_active_workflows failed and returned []): sleep
PipelinesFetchNothing ==
    /\ PipelinesAtTop
    /\ mp_pc' = "sleep" /\ running' = "none"
    /\ mp_prev' = {} /\ mp_done' = {}
    /\ UNCHANGED << engineVars, call, files, metrics, safeVars, last_seen_run, mp_runs,
                    hookVars, storeVars, pass >>

\* an exception escapes the body of a cycle (none of the calls the body
\* makes lets one through; it stands for a failure of the runtime) and the
\* top-level guard logs it: `except Exception` has no sleep, the loop is
\* back at the top of `while True` without having given up control
PipelinesRaise ==
    /\ running = "pipelines" /\ mp_pc = "iter" /\ mp_runs # <<>>
    /\ mp_pc' = "guard" /\ mp_runs' = <<>>
    /\ UNCHANGED << engineVars, call, files, metrics, safeVars, last_seen_run, mp_done,
                    mp_prev, hookVars, storeVars, pass, running >>

\* one turn of `for run in runs_data`
PipelinesIter ==
    /\ running = "pipelines" /\ mp_pc = "iter" /\ mp_runs # <<>>
    /\ LET run == Head(mp_runs)
       IN  IF run.id = NoId \/ (run.id \in RunIds /\ run.id = last_seen_run)
           THEN UNCHANGED << last_seen_run, metrics, mp_done, files, pass >>
           ELSE /\ last_seen_run' = run.id
                /\ mp_done' = IF run.id \in RunIds
                              THEN mp_done \cup {<<run.id, run.conclusion>>}
                              ELSE mp_done
                /\ \E prediction \in predict_failure(is_model_loaded),
                      log \in (IF run.logs_url THEN Logs ELSE {NoLogs}),
                      p \in predict_healing_success(healing_model),
                      faults \in FaultPlans, hasGood \in BOOLEAN :
                     LET a == analyze_failure(log)
                         h == heal(a, files, repo, faults, hasGood)
                         healed == run.conclusion = "failure" /\ PipelinesGate(p)
                         base == [NoPass EXCEPT !.path = "pipelines", !.run = run.id,
                                                !.analysis = a, !.prob = p]
                     IN  /\ files' = IF healed THEN h.files ELSE files
                         /\ metrics' = [metrics EXCEPT
                                          !.runs = @ + 1,
                                          !.conf = ConfidenceOf(prediction),
                                          !.success = IF run.conclusion = "success" THEN @ + 1 ELSE @,
                                          !.heal = IF healed THEN @ + h.incs ELSE @]
                         /\ pass' = IF run.conclusion # "failure" THEN pass
                                    ELSE IF ~healed THEN [base EXCEPT !.stage = "skipped"]
                                    ELSE [base EXCEPT !.healed = TRUE, !.outcome = Outcome(h),
                                                      !.stage = IF h.success THEN "succeeded"
                                                                ELSE "failed"]
    /\ mp_runs' = Tail(mp_runs)
    /\ UNCHANGED << engineVars, call, safeVars, mp_pc, mp_prev, hookVars, storeVars, running >>

\* the list is exhausted: `await asyncio.sleep(POLL_INTERVAL)`
PipelinesEnd ==
    /\ running = "pipelines" /\ mp_pc = "iter" /\ mp_runs = <<>>
    /\ mp_pc' = "sleep" /\ running' = "none"
    /\ UNCHANGED << engineVars, call, files, metrics, safeVars, last_seen_run, mp_runs,
                    mp_done, mp_prev, hookVars, storeVars, pass >>

\* the sleep ends: next `while True` turn
PipelinesWake ==
    /\ running = "none" /\ mp_pc = "sleep"
    /\ mp_pc' = "fetch"
    /\ UNCHANGED << engineVars, call, files, metrics, safeVars, last_seen_run, mp_runs,
                    mp_done, mp_prev, hookVars, storeVars, pass, running >>

PipelinesNext ==
    \/ \E runs \in SeqsUpTo(ActiveRuns, MaxPage) : PipelinesFetch(runs)
    \/ PipelinesFetchNothing
    \/ PipelinesRaise
    \/ PipelinesIter
    \/ PipelinesEnd
    \/ PipelinesWake

SpecPipelines == Init /\ [][PipelinesNext]_vars

(***************************************************************************)
(* The classifiers and the other pure helpers called directly, on a        *)
(* freshly started application, each on any of its inputs.                 *)
(***************************************************************************)
\* `await healing_engine.analyze_failure(logs)`
Classify(log) ==
    /\ call = NoCall
    /\ call' = [fn |-> "analyze_failure", log |-> log, out |-> analyze_failure(log)]
    /\ UNCHANGED << engineVars, files, metrics, safeVars, pipeVars, hookVars,
                    storeVars, pass, running >>

\* `FailurePatternAnalyzer().identify_pattern(error_log)`
Identify(log) ==
    /\ call = NoCall
    /\ call' = [fn |-> "identify_pattern", log |-> log, out |-> identify_pattern(log)]
    /\ UNCHANGED << engineVars, files, metrics, safeVars, pipeVars, hookVars,
                    storeVars, pass, running >>

\* `FailurePatternAnalyzer().is_flaky_test(test_history)`
Flaky(test_history) ==
    /\ call = NoCall
    /\ call' = [ fn |-> "is_flaky_test", log |-> NoLogs, out |-> NoAnalysis,
                 history |-> test_history, flaky |-> is_flaky_test(test_history) ]
    /\ UNCHANGED << engineVars, files, metrics, safeVars, pipeVars, hookVars,
                    storeVars, pass, running >>

\* `self._risk(prob)` in predict_failure
Risk(p) ==
    /\ call = NoCall
    /\ call' = [ fn |-> "_risk", log |-> NoLogs, out |-> NoAnalysis,
                 p |-> p, band |-> _risk(p) ]
    /\ UNCHANGED << engineVars, files, metrics, safeVars, pipeVars, hookVars,
                    storeVars, pass, running >>

ClassifyNext ==
    \/ \E log \in EngineLogs : Classify(log)
    \/ \E log \in AnalyzerLogs : Identify(log)
    \/ \E test_history \in Histories : Flaky(test_history)
    \/ \E p \in RiskInputs : Risk(p)

SpecClassify == Init /\ [][ClassifyNext]_vars

(***************************************************************************)
(* heal called directly, up to MaxCalls times in a row, on a repository    *)
(* whose files are in any of the conditions the strategies tell apart.     *)
(***************************************************************************)
\* a failure_analysis a caller builds for a flaky test (no rule of
\* analyze_failure gives this error_type)
FlakyAnalysis ==
    [ error_type |-> "flaky_test", fixable |-> TRUE, missing_package |-> NoPkg,
      severity |-> "medium", cache |-> FALSE, perm |-> FALSE ]

\* the failure_analysis arguments of heal
HealInputs == {analyze_failure(log) : log \in EngineLogs} \cup {FlakyAnalysis}

\* the conditions of the three files on the run's branch
HealFiles ==
    { [req |-> r, pytest |-> p, wf |-> w] :
        r \in { ReqFile(FALSE, <<>>), ReqFile(TRUE, <<>>),
                ReqFile(TRUE, <<"flask">>), ReqFile(TRUE, <<"pandas-stubs">>) },
        p \in { PytestFile(FALSE, "none", FALSE), PytestFile(TRUE, "none", FALSE),
                PytestFile(TRUE, "word", FALSE), PytestFile(TRUE, "other", FALSE) },
        w \in { WorkflowFile(FALSE, "none"), WorkflowFile(TRUE, "none"),
                WorkflowFile(TRUE, "other") } }

InitHeal ==
    /\ \E m \in LoadedModels : is_model_loaded = m[1] /\ healing_model = m[2]
    /\ repo \in BOOLEAN
    /\ files \in HealFiles
    /\ metrics = [runs |-> 0, success |-> 0, conf |-> NoConf, heal |-> 0]
    /\ last_seen = [ids |-> {}, others |-> 0]
    /\ sm_pc = "fetch" /\ sm_runs = <<>>
    /\ sm_done = {} /\ sm_prev = {}
    /\ last_seen_run = NoId
    /\ mp_pc = "fetch" /\ mp_runs = <<>>
    /\ mp_done = {} /\ mp_prev = {}
    /\ bg_tasks = <<>>
    /\ pipeline_runs = <<>>
    /\ failure_logs = <<>>
    /\ healing_actions = <<>>
    /\ reruns = [r \in RunIds |-> 0]
    /\ notifications = [r \in RunIds |-> 0]
    /\ pass = NoPass
    /\ running = "none"
    /\ call = NoCall

\* `await healing_engine.heal(run_id, failure_analysis, workflow_run)`; the
\* call is recorded with its arguments, the files it found, its outcome,
\* its increments of PIPELINE_HEAL_ACTIONS, and whether it repeats the call
\* before it (same failure_analysis, the earlier call having met no
\* collaborator failure)
Heal(a, faults, hasGood) ==
    /\ call.fn \in {"none", "heal"}
    /\ call.fn = "heal" => call.n < MaxCalls
    /\ LET h == heal(a, files, repo, faults, hasGood)
       IN  /\ files' = h.files
           /\ metrics' = [metrics EXCEPT !.heal = @ + h.incs]
           /\ call' = [ fn |-> "heal", log |-> NoLogs, out |-> a, res |-> Outcome(h),
                        before |-> files, faults |-> faults, good |-> hasGood,
                        incs |-> h.incs, details |-> h.details,
                        again |-> call.fn = "heal" /\ call.out = a /\ call.faults = {},
                        n |-> IF call.fn = "heal" THEN call.n + 1 ELSE 1 ]
    /\ UNCHANGED << engineVars, safeVars, pipeVars, hookVars, storeVars, pass, running >>

HealNext == \E a \in HealInputs, faults \in FaultPlans, hasGood \in BOOLEAN : Heal(a, faults, hasGood)

SpecHeal == InitHeal /\ [][HealNext]_vars

(***************************************************************************)
(* db.create_pipeline_run called directly, up to MaxCalls times in a row.  *)
(***************************************************************************)
\* the arguments of a call: <<run_id, repo, status, conclusion, started_at,
\* completed_at>>; conclusion and completed_at may be None
NoTime == 0
RunArgs ==
    RunIds \X {"owner/repo", "owner/fork"} \X {"in_progress", "completed"}
           \X {"None", "success", "failure"} \X {1, 2} \X {NoTime, 3}

CreatePipelineRun(args) ==
    /\ call.fn \in {"none", "create_pipeline_run"}
    /\ call.fn = "create_pipeline_run" => call.n < MaxCalls
    /\ pipeline_runs' = create_pipeline_run(pipeline_runs, args[1], args[2], args[3],
                                            args[4], args[5], args[6])
    /\ call' = [ fn |-> "create_pipeline_run", log |-> NoLogs, out |-> NoAnalysis,
                 args |-> args, before |-> pipeline_runs,
                 again |-> call.fn = "create_pipeline_run" /\ call.args = args,
                 n |-> IF call.fn = "create_pipeline_run" THEN call.n + 1 ELSE 1 ]
    /\ UNCHANGED << engineVars, files, metrics, safeVars, pipeVars, bg_tasks,
                    storeVars, pass, running >>

StoreNext == \E args \in RunArgs : CreatePipelineRun(args)

SpecStore == Init /\ [][StoreNext]_vars

(***************************************************************************)
(* The application: startup_event starts both loops, the webhook endpoint  *)
(* is served beside them.                                                  *)
(***************************************************************************)
Next ==
    /\ HookNext \/ SafeNext \/ PipelinesNext
    /\ metrics'.runs + Len(sm_runs') + Len(mp_runs') <= MaxTogether

Spec == Init /\ [][Next]_vars

(***************************************************************************)
(* Properties.                                                             *)
(***************************************************************************)
\* rows of a table (a sequence of records with a run field) for run r
RowsOf(table, r) == {i \in DOMAIN table : table[i].run = r}

\* a pass that ran to its end (not cut short by a store exception)
Finished == pass.stage \in {"succeeded", "failed", "skipped"}

\* C1: in each polling loop, a run that two consecutive polls return with
\* the same conclusion is processed by at most one of the two cycles.
C1_ProcessedAtMostOnce ==
    /\ sm_done \cap sm_prev = {}
    /\ mp_done \cap mp_prev = {}

\* C2: at every call site (handle_pipeline_failure, monitor_pipelines,
\* run_safe_monitor) heal is invoked if and only if the predicted
\* probability is strictly greater than 0.70.
C2_HealIffAboveThreshold ==
    (pass.prob # NoProb) => (pass.healed <=> pass.prob > THRESHOLD)

\* a pass skipped at exactly 0.70 after an earlier pass healed
C2_Witness ==
    /\ pass.prob = THRESHOLD /\ ~pass.healed
    /\ metrics.heal > 0

\* C3: a failed run id presented twice leaves exactly one failure record
\* and at most one remediation attempt for that id.
C3_OneRecordPerRun ==
    /\ \A r \in RunIds :
         /\ Cardinality(RowsOf(failure_logs, r)) <= 1
         /\ Cardinality(RowsOf(healing_actions, r)) <= 1
    /\ (pass.path = "hook" /\ Finished)
          => Cardinality(RowsOf(failure_logs, pass.run)) = 1

\* C4: a HealingAction row is only ever added by a pass that called heal
\* with a probability above 0.70; a skipped pass adds none.
C4_ActionOnlyAboveThreshold ==
    [][ healing_actions' # healing_actions
          => /\ pass'.healed /\ pass'.prob > THRESHOLD
             /\ pass'.stage # "skipped" ]_vars

\* a HealingAction row stored by a pass whose probability was just above 0.70
C4_Witness ==
    /\ pass.path = "hook" /\ pass.prob = THRESHOLD + 1
    /\ RowsOf(healing_actions, pass.run) # {}

\* C5: every run with a HealingAction row has a FailureLog row, and the pass
\* that stored the action stored the run's failure log last before it.
C5_ActionAfterFailureLog ==
    /\ \A i \in DOMAIN healing_actions : RowsOf(failure_logs, healing_actions[i].run) # {}
    /\ (pass.path = "hook" /\ pass.stage \in {"succeeded", "failed"})
          => /\ failure_logs # <<>> /\ healing_actions # <<>>
             /\ failure_logs[Len(failure_logs)].run = pass.run
             /\ healing_actions[Len(healing_actions)].run = pass.run

\* two passes, one skipped and one that stored its action
C5_Witness ==
    /\ Len(healing_actions) = 1 /\ Len(failure_logs) = 2
    /\ pass.path = "hook" /\ pass.stage \in {"succeeded", "failed"}

\* C6: at most one rerun is requested per run id.
C6_OneRerunPerRun == \A r \in RunIds : reruns[r] <= 1

\* C7: on every path, a pass whose healing succeeded requests a rerun, and
\* a pass whose healing failed or was skipped notifies and requests none.
C7_OutcomeDecidesFollowUp ==
    /\ pass.stage = "succeeded" => pass.rerun
    /\ pass.stage \in {"failed", "skipped"} => pass.notified /\ ~pass.rerun

\* C8: a log no rule matches is classified unknown and not fixable, no
\* strategy runs and nothing is changed whatever the probability, and an
\* escalation notification is sent.
C8_UnknownEscalates ==
    (Finished /\ pass.analysis.error_type = "unknown")
       => /\ ~pass.analysis.fixable
          /\ ~pass.outcome.executed /\ pass.outcome.changes = <<>>
          /\ pass.notified

\* C9: when a collaborator operation raised during heal, the outcome heal
\* returns has success = false.
C9_RaiseMeansFailure ==
    (pass.healed /\ pass.outcome.raised) => ~pass.outcome.success

C11_GuardSleepsBeforePoll ==
    [][ /\ (sm_pc = "guard" /\ sm_pc' # "guard") => sm_pc' = "fetch"
        /\ (mp_pc = "guard" /\ mp_pc' # "guard") => mp_pc' = "fetch" ]_vars

\* C12: when the recency set exceeds its capacity the oldest ids are the
\* ones evicted; in particular an id added in the current cycle (the
\* newest ones) is still in the set.
C12_JustAddedStays == \A e \in sm_done : e[1] \in last_seen.ids

IsPrefix(s, t) == Len(s) <= Len(t) /\ SubSeq(t, 1, Len(s)) = s

\* what an earlier strategy invocation wrote to a file is still there
Preserved(old, new) ==
    /\ old.req.exists =>
         new.req.exists /\ IsPrefix(old.req.lines, new.req.lines)
    /\ old.pytest.exists =>
         /\ new.pytest.exists
         /\ old.pytest.reruns => new.pytest.reruns
         /\ old.pytest.timeout = "300" => new.pytest.timeout = "300"
    /\ old.wf.exists =>
         new.wf.exists /\ (old.wf.tm = "60" => new.wf.tm = "60")

C14_FallbackWithoutModel ==
    ~healing_model =>
        /\ predict_healing_success(healing_model) = {500}
        /\ pass.prob \in {NoProb, 500}

\* a pass scored without a healing model
C14_Witness == ~healing_model /\ pass.path = "hook" /\ pass.prob = 500

\* C15: without the failure model the predictor reports itself not loaded,
\* predict_failure gives an error result, and no consumer is handed a
\* confidence value in its place.
C15_NoDefaultConfidence ==
    ~is_model_loaded =>
        /\ predict_failure(is_model_loaded) = {NoConf}
        /\ metrics.conf = NoConf

\* C16: predict_failure and predict_healing_success never raise into the
\* caller: no pass is scored through a caller's except branch (which gives
\* 0.0 in the polling loops and ends the pass in handle_pipeline_failure).
C16_PredictorNeverRaises ==
    /\ Raises \notin predict_failure(is_model_loaded)
    /\ Raises \notin predict_healing_success(healing_model)
    /\ pass.prob \notin {Raises, 0}

\* scoring with a loaded healing model gave the fallback, and the loop
\* handled the run with it
C16_Witness ==
    /\ healing_model /\ pass.path = "safe" /\ pass.prob = FALLBACK
    /\ is_model_loaded /\ metrics.conf = 0

\* the closed enumeration of categories
Categories ==
    { "missing_dependency", "test_timeout", "test_failure", "build_failure",
      "deployment_crash", "resource_limit", "network_timeout", "syntax_error",
      "permission_error", "configuration_error", "unknown" }

\* the category `got` is that of the first of `rules` the log matches
FirstMatch(rules, log, got) ==
    \E i \in log.hits : rules[i] = got /\ \A j \in log.hits : i <= j

\* C17: each classifier returns the category of the first rule, in
\* declaration order, that matches; a log matching a missing_dependency
\* rule and a test_failure rule is classified missing_dependency.
C17_FirstRuleWins ==
    /\ (call.fn = "analyze_failure" /\ call.log.hits # {})
         => /\ FirstMatch(patterns, call.log, call.out.error_type)
            /\ (call.log.hits \cap {1, 2, 3} # {} /\ 5 \in call.log.hits)
                  => call.out.error_type = "missing_dependency"
    /\ (call.fn = "identify_pattern" /\ call.log.hits # {})
         => /\ FirstMatch(pattern_types, call.log, call.out.pattern_type)
            /\ (call.log.hits \cap (1..5) # {} /\ call.log.hits \cap (10..13) # {})
                  => call.out.pattern_type = "missing_dependency"

\* analyze_failure on a log matching the third missing_dependency rule and
\* the test_failure rule
C17_Witness ==
    /\ call.fn = "analyze_failure" /\ call.log.hits = {3, 5}
    /\ call.out.error_type = "missing_dependency"

\* C18: the category a classifier returns is a member of the closed
\* enumeration, and unknown for a log no rule matches.
C18_ClosedEnumeration ==
    /\ call.fn = "analyze_failure"
         => /\ call.out.error_type \in Categories
            /\ call.log.hits = {} => call.out.error_type = "unknown"
    /\ call.fn = "identify_pattern"
         => /\ call.out.pattern_type \in Categories
            /\ call.log.hits = {} => call.out.pattern_type = "unknown"

C20_SeverityByCategory ==
    call.fn = "analyze_failure" =>
        call.out.severity =
            CASE call.out.error_type \in {"deployment_crash", "resource_limit"} -> "critical"
              [] call.out.error_type \in {"missing_dependency", "build_failure"} -> "high"
              [] OTHER -> "medium"

\* a deployment crash classified critical
C20_Witness ==
    /\ call.fn = "analyze_failure" /\ call.out.error_type = "deployment_crash"
    /\ call.out.severity = "critical"

\* the strategy the table registers for the category of analysis a
Registered(a, f, r, faults, g) ==
    CASE a.error_type = "missing_dependency" -> fix_missing_dependency(a, f, r, faults)
      [] a.error_type = "test_timeout"       -> fix_test_timeout(a, f, r, faults)
      [] a.error_type = "flaky_test"         -> fix_flaky_test(a, f, r, faults)
      [] a.error_type = "build_failure"      -> fix_build_failure(a, f, r, faults)
      [] a.error_type = "deployment_crash"   -> rollback_deployment(a, f, r, faults, g)
      [] a.error_type = "resource_limit"     -> increase_resources(a, f, r, faults)
      [] a.error_type = "network_timeout"    -> add_retry_logic(a, f, r, faults)

\* the log of scenario B: only the OOMKilled rule matches
OOMLog == MkLog({9}, NoPkg, FALSE, FALSE)

\* C21: a heal call whose category has a table entry runs the strategy
\* registered for that category and no other (its outcome, its file changes
\* and its metric increments are those of that strategy plus heal's own
\* increment), and the outcome's strategy identifier names the category; an
\* OOMKilled log is classified resource_limit, critical, and goes to
\* increase_resources.
C21_RegisteredStrategyRuns ==
    /\ analyze_failure(OOMLog).error_type = "resource_limit"
    /\ analyze_failure(OOMLog).severity = "critical"
    /\ (call.fn = "heal" /\ call.out.error_type \in StrategyKeys) =>
          LET r == Registered(call.out, call.before, repo, call.faults, call.good)
          IN  /\ call.res.executed
              /\ call.res.action_type = call.out.error_type
              /\ call.res.success = r.success
              /\ call.res.changes = r.changes
              /\ files = r.files
              /\ call.incs = r.incs + 1

\* heal on the classification of the OOMKilled log raised the workflow's
\* timeout-minutes
C21_Witness ==
    /\ call.fn = "heal" /\ call.out = analyze_failure(OOMLog)
    /\ call.res.success /\ call.res.action_type = "resource_limit"
    /\ call.before.wf.tm = "other" /\ files.wf.tm = "60"

\* C22: for a category without a table entry (unknown, test_failure, any
\* other), heal returns success false, strategy none and the 'no strategy'
\* detail, runs no strategy, changes no file and leaves the healing-action
\* metric as it was.
C22_UnmappedDoesNothing ==
    (call.fn = "heal" /\ call.out.error_type \notin StrategyKeys) =>
        /\ ~call.res.success
        /\ call.res.action_type = "none"
        /\ call.details = "No healing strategy"
        /\ ~call.res.executed /\ call.res.changes = <<>>
        /\ files = call.before
        /\ call.incs = 0

\* heal on a test_failure classification, against a configured repository
C22_Witness ==
    /\ call.fn = "heal" /\ call.out.error_type = "test_failure"
    /\ repo /\ call.before.req.exists
    /\ call.res.action_type = "none"

\* the log of scenario A: only the ModuleNotFoundError rule matches, the
\* module named is pandas
PandasLog == MkLog({1}, "pandas", FALSE, FALSE)

\* the manifest has a line for the package
HasEntry(pkg, lines) == \E i \in 1..Len(lines) : lines[i] = pkg

\* C23: the ModuleNotFoundError log for pandas is classified
\* missing_dependency, package pandas, severity high, fixable; probability
\* 0.85 passes the gate; and heal on that classification, against a
\* configured repository whose manifest has no entry for pandas and whose
\* collaborator calls do not fail, succeeds with the one change that adds
\* pandas, after which the manifest has the entry.
C23_ScenarioA ==
    /\ analyze_failure(PandasLog).error_type = "missing_dependency"
    /\ analyze_failure(PandasLog).missing_package = "pandas"
    /\ analyze_failure(PandasLog).severity = "high"
    /\ analyze_failure(PandasLog).fixable
    /\ HookGate(850) /\ SafeGate(850) /\ PipelinesGate(850)
    /\ ( /\ call.fn = "heal" /\ call.out = analyze_failure(PandasLog)
         /\ repo /\ call.faults = {}
         /\ ~HasEntry("pandas", call.before.req.lines) )
       => /\ call.res.success
          /\ call.res.changes = << <<"requirements.txt", "pandas">> >>
          /\ HasEntry("pandas", files.req.lines)

\* C24: every strategy is idempotent on the repository: a heal call that
\* repeats the call before it (same classification, same branch, the first
\* application not cut short by a collaborator failure) leaves every file
\* with the content the first application left.
C24_StrategiesIdempotent ==
    (call.fn = "heal" /\ call.again) => files = call.before

\* the second of two add-to-manifest applications for pandas: the first
\* wrote the entry, the second found it
C24_Witness ==
    /\ call.fn = "heal" /\ call.again /\ repo
    /\ call.out = analyze_failure(PandasLog)
    /\ call.before.req.lines = <<"flask", "pandas">>
    /\ files.req.lines = <<"flask", "pandas">>

\* C25: after any sequence of create_pipeline_run calls the table holds at
\* most one row per run id; a call for a run id the table already holds
\* sets that row's status, conclusion and end timestamp to the call's values
\* and changes nothing else (repository and start timestamp stay, no row is
\* added); a call repeating the call before it leaves the table as it was.
C25_UpsertByRunId ==
    call.fn = "create_pipeline_run" =>
        /\ \A i, j \in DOMAIN pipeline_runs :
              pipeline_runs[i].run_id = pipeline_runs[j].run_id => i = j
        /\ \A i \in DOMAIN call.before :
              call.before[i].run_id = call.args[1] =>
                 pipeline_runs = [call.before EXCEPT
                                    ![i].status = call.args[3],
                                    ![i].conclusion = call.args[4],
                                    ![i].completed_at = call.args[6]]
        /\ call.again => pipeline_runs = call.before

\* a second call for run 1, naming another repository and start time, that
\* moved the row from in_progress to completed
C25_Witness ==
    /\ call.fn = "create_pipeline_run" /\ Len(call.before) = 1
    /\ call.before[1] = [ run_id |-> 1, repo |-> "owner/repo", status |-> "in_progress",
                          conclusion |-> "None", started_at |-> 1, completed_at |-> NoTime ]
    /\ call.args = <<1, "owner/fork", "completed", "failure", 2, 3>>
    /\ pipeline_runs = << [ run_id |-> 1, repo |-> "owner/repo", status |-> "completed",
                            conclusion |-> "failure", started_at |-> 1, completed_at |-> 3 ] >>

\* number of failing observations of a history
Fails(h) == Cardinality({i \in DOMAIN h : ~h[i]})

\* C26: is_flaky_test is true exactly when the history has at least 5
\* observations and its fraction of failures lies in [1/5, 4/5]; a history
\* of fewer than 5 is not flaky; [pass,fail,pass,fail,pass] is flaky and
\* [pass,pass,pass,pass] is not.
C26_FlakyWindow ==
    /\ is_flaky_test(<<TRUE, FALSE, TRUE, FALSE, TRUE>>)
    /\ ~is_flaky_test(<<TRUE, TRUE, TRUE, TRUE>>)
    /\ call.fn = "is_flaky_test" =>
          /\ call.flaky <=> ( /\ Len(call.history) >= 5
                              /\ 5 * Fails(call.history) >= Len(call.history)
                              /\ 5 * Fails(call.history) <= 4 * Len(call.history) )
          /\ Len(call.history) < 5 => ~call.flaky

\* a history of five with one failure (rate exactly 0.20) reported flaky
C26_Witness ==
    /\ call.fn = "is_flaky_test" /\ Len(call.history) = 5
    /\ Fails(call.history) = 1 /\ call.flaky

\* the bands in rising order
BandRank(b) ==
    CASE b = "very_low" -> 1 [] b = "low" -> 2 [] b = "medium" -> 3
      [] b = "high" -> 4 [] b = "very_high" -> 5

\* C27: the risk band is total and monotone in the probability: very_high
\* from 0.8, high from 0.6, medium from 0.4, low from 0.2, very_low below,
\* each boundary value in the higher band.
C27_RiskBands ==
    call.fn = "_risk" =>
        /\ call.band = CASE call.p >= 800 -> "very_high"
                         [] call.p >= 600 /\ call.p < 800 -> "high"
                         [] call.p >= 400 /\ call.p < 600 -> "medium"
                         [] call.p >= 200 /\ call.p < 400 -> "low"
                         [] call.p < 200 -> "very_low"
        /\ \A q \in RiskInputs :
              q <= call.p => BandRank(_risk(q)) <= BandRank(call.band)

\* the boundary value 0.6 put in the band high
C27_Witness ==
    call.fn = "_risk" /\ call.p = 600 /\ call.band = "high"

\* C28: every processing pass of a failed run classifies, then scores,
\* then dispatches only if the score passes the gate, and ends in exactly
\* one of Succeeded (dispatched, success reported), Failed (dispatched,
\* failure reported) and Skipped (not dispatched); heal runs only for a run
\* that has been classified and scored.
C28_PassOrderAndTerminal ==
    pass.path # "none" =>
        /\ pass.stage \in {"succeeded", "failed", "skipped"}
        /\ pass.stage = "succeeded" <=> (pass.healed /\ pass.outcome.success)
        /\ pass.stage = "failed" <=> (pass.healed /\ ~pass.outcome.success)
        /\ pass.stage = "skipped" <=> ~pass.healed
        /\ pass.healed => pass.prob \notin {NoProb, Raises} /\ pass.prob > THRESHOLD

C30_RecordCarriesClassification ==
    (pass.path = "hook" /\ pass.prob # NoProb) =>
        LET row == failure_logs[Len(failure_logs)]
        IN  /\ row.run = pass.run
            /\ row.error_type = pass.analysis.error_type
            /\ row.severity = pass.analysis.severity

\* C31: the remediation attempt persisted for a dispatched failure records
\* the strategy identifier, the success flag and the ordered list of changes
\* as heal returned them.
C31_AttemptCarriesOutcome ==
    (pass.path = "hook" /\ pass.healed /\ pass.stage \in {"succeeded", "failed"}) =>
        LET row == healing_actions[Len(healing_actions)]
        IN  /\ row.run = pass.run
            /\ row.action_type = pass.outcome.action_type
            /\ row.success = pass.outcome.success
            /\ row.changes_made = pass.outcome.changes

\* C32: whenever increase_resources reports success with the change
\* 'workflow: timeout-minutes = 60', the workflow file on the run's branch
\* declares timeout-minutes: 60, whatever it held before.
C32_RaiseLimitsTakesEffect ==
    ( /\ call.fn = "heal" /\ call.out.error_type = "resource_limit"
      /\ call.res.success
      /\ call.res.changes = << <<"workflow", "timeout-minutes = 60">> >> )
    => files.wf.exists /\ files.wf.tm = "60"

\* the log of a pip resolution error for the requirement pandas>=1.0
PipLog == MkLog({3}, "pandas>=1.0", FALSE, FALSE)

\* C33: for a missing_dependency classification the package name carries no
\* version-constraint suffix (pandas>=1.0 gives pandas), and the name the
\* add-to-manifest strategy appends to the manifest is that stripped name.
C33_PackageNameStripped ==
    /\ extract_package_name(PipLog) = "pandas"
    /\ (call.fn = "heal" /\ call.out.error_type = "missing_dependency") =>
          /\ call.out.missing_package = StripVersion(call.out.missing_package)
          /\ \A i \in DOMAIN files.req.lines :
                i > Len(call.before.req.lines)
                   => files.req.lines[i] = StripVersion(files.req.lines[i])

\* C34: across run_safe_monitor, monitor_pipelines and
\* handle_pipeline_failure, heal is invoked at most once for a failed run
\* id: a pass that heals a run is never followed by a pass that heals the
\* same run again.
C34_OneHealPerRun ==
    [][ ~ ( /\ pass.healed /\ pass.run \in RunIds
            /\ pass'.healed /\ pass'.run = pass.run
            /\ metrics'.heal > metrics.heal ) ]_vars

\* the poll being iterated has run r, concluded failure, at its head
ListedFailed(r) ==
    /\ sm_pc = "iter" /\ sm_runs # <<>>
    /\ Head(sm_runs).id = r /\ Head(sm_runs).conclusion = "failure"

\* C35: a run that run_safe_monitor observed while in progress and that
\* polls keep returning with conclusion failure is eventually analyzed.
C35_FailedRunEventuallyAnalyzed ==
    \A r \in RunIds :
        [] ( (<<r, "null">> \in sm_done)
               => ( ([]<> ListedFailed(r)) => <> (pass.path = "safe" /\ pass.run = r) ) )

\* C36: while no healing model is loaded, heal is never invoked and no
\* healing action is persisted on any path, and every pass of a failed run
\* ends Skipped.
C36_NoDispatchWithoutModel ==
    ~healing_model =>
        /\ ~pass.healed /\ metrics.heal = 0
        /\ healing_actions = <<>>
        /\ pass.path # "none" => pass.stage = "skipped"

\* C37: when the engine has no repository client, heal returns
\* success = false and changes no file for missing_dependency, test_timeout,
\* flaky_test, resource_limit and network_timeout.
C37_NoRepoNoSuccess ==
    ( /\ call.fn = "heal" /\ ~repo
      /\ call.out.error_type \in {"missing_dependency", "test_timeout", "flaky_test",
                                  "resource_limit", "network_timeout"} )
    => ~call.res.success /\ files = call.before

\* C38: PIPELINE_HEAL_ACTIONS increases by exactly one for each heal call
\* that executes a strategy, whichever strategy and whatever its outcome, so
\* the counter equals the number of strategy executions.
C38_OneIncrementPerExecution ==
    [][ (call'.fn = "heal" /\ call'.res.executed) => metrics'.heal = metrics.heal + 1 ]_vars

\* C39: the recency set of run_safe_monitor is bounded: after the dedup step
\* of every observed run it holds at most 200 ids, and immediately after an
\* eviction (the step that shrinks it) it holds exactly 100 ids.
C39_RecencySetBounded ==
    [][ /\ SeenSize(last_seen') <= SEEN_LIMIT
        /\ SeenSize(last_seen') < SeenSize(last_seen) => SeenSize(last_seen') = SEEN_KEEP
        /\ (last_seen' # last_seen /\ SeenSize(last_seen) = SEEN_LIMIT)
              => SeenSize(last_seen') = SEEN_KEEP ]_vars

\* a run observed while the set held 200 ids has caused an eviction
C39_Witness ==
    /\ SeenSize(last_seen) = SEEN_KEEP
    /\ metrics.runs >= 1

=============================================================================
